---- MODULE Spec2Model ----
(***************************************************************************)
(* Model of nvidia_exporter.go: the Prometheus collector `Exporter`, its   *)
(* scrape cycle (Collect / GetTelemetryFromNVML) run by concurrent scrape  *)
(* goroutines under Exporter.mutex, and the start-up sequence of main.     *)
(***************************************************************************)
EXTENDS Integers, Sequences, FiniteSets, TLC

\* ------------------------------------------------------------------ bounds
\* number of scrape requests (goroutines calling Collect) in a behaviour
MaxRequests == 2
\* largest number of devices GetDevices enumerates
MaxDevices == 2

Requests == 1..MaxRequests

\* ------------------------------------------------------- static catalog
\* keys of gaugeMetrics
GaugeNames ==
    {"power_watts", "gpu_percent", "memory_free", "memory_total",
     "memory_used", "memory_percent", "temperature_fahrenheit",
     "temperature_celsius"}

\* the four query classes, in the order the body of the device loop issues
\* them
QueryOrder == <<"utilization", "temperature", "power", "memory">>

\* the series each query class writes after it succeeded
WrittenBy(class) ==
    CASE class = "utilization" -> {"gpu_percent", "memory_percent"}
      [] class = "temperature" -> {"temperature_celsius", "temperature_fahrenheit"}
      [] class = "power"       -> {"power_watts"}
      [] class = "memory"      -> {"memory_free", "memory_total", "memory_used"}

\* --------------------------------------------------- external collaborators
\* devices the management library may enumerate (index, UUID, name), in the
\* order of enumeration; the indexes are not in ascending order
DevicePool ==
    << [i |-> 12, DeviceUUID |-> "GPU-c", DeviceName |-> "GeForce"],
       [i |-> 0,  DeviceUUID |-> "GPU-a", DeviceName |-> "Tesla K80"],
       [i |-> 1,  DeviceUUID |-> "GPU-b", DeviceName |-> "Tesla K80"],
       [i |-> 3,  DeviceUUID |-> "GPU-d", DeviceName |-> "GeForce"] >>

\* results GetDevices can return without an error: the first n devices of
\* the pool, n up to MaxDevices
DeviceLists == { SubSeq(DevicePool, 1, n) : n \in 0..MaxDevices }

\* values the device queries can return without an error
UtilizationReadings == { [gpuPercent |-> 45, memoryPercent |-> 60] }
TemperatureReadings == { [tempF |-> 167, tempC |-> 75] }
PowerReadings       == { [powerUsage |-> 120] }
MemoryReadings      == { [Free |-> 1000000, Total |-> 4000000, Used |-> 3000000] }

\* ------------------------------------------------------------ conversions
Digit(d) ==
    CASE d = 0 -> "0" [] d = 1 -> "1" [] d = 2 -> "2" [] d = 3 -> "3"
      [] d = 4 -> "4" [] d = 5 -> "5" [] d = 6 -> "6" [] d = 7 -> "7"
      [] d = 8 -> "8" [] d = 9 -> "9"

RECURSIVE ItoaNat(_)
ItoaNat(n) == IF n < 10 THEN Digit(n) ELSE ItoaNat(n \div 10) \o Digit(n % 10)

\* strconv.Itoa: the decimal string of an int
Itoa(n) == IF n < 0 THEN "-" \o ItoaNat(-n) ELSE ItoaNat(n)

\* float64(int): exact for every |v| < 2^53, which covers every integer the
\* model checker represents
Float64(v) == v

\* LabelValues with the first two label values in the wrong order
LabelValuesSwapped(device) == <<device.DeviceUUID, Itoa(device.i), device.DeviceName>>

\* the label values passed to WithLabelValues for a device
LabelValues(device) == <<Itoa(device.i), device.DeviceUUID, device.DeviceName>>

\* ------------------------------------------------------------------ state
VARIABLES
    mainpc,     \* position of main
    initErr,    \* the start-up call that returned an error, "none" if none did
    registered, \* prometheus.MustRegister(exporter) has run
    devices,    \* Exporter.devices
    mutex,      \* Exporter.mutex: 0 when free, else the request holding it
    up,         \* value of the gauge Exporter.up
    gauges,     \* Exporter.gauges: name -> set of children [labels, value, cycle]
    pc,         \* position of each scrape request in Collect
    idx,        \* per request: position of the device loop in e.devices
    pending,    \* per request: vectors the current `range e.gauges` has yet to visit
    emitted,    \* per request: series sent on ch by vec.Collect
    upSent,     \* per request: values of e.up sent on ch, in order
    qlog,       \* per request: the device queries issued, in order, with outcome
    cycles      \* number of cycles begun (acquisitions of the lock)

vars == <<mainpc, initErr, registered, devices, mutex, up, gauges, pc, idx, pending,
          emitted, upSent, qlog, cycles>>

exporterVars == <<devices, mutex, up, gauges>>
requestVars  == <<pc, idx, pending, emitted, upSent, qlog>>

Init ==
    /\ mainpc = "init_nvml"
    /\ initErr = "none"
    /\ registered = FALSE
    /\ devices = << >>
    /\ mutex = 0
    /\ up = 0
    /\ gauges = [n \in {} |-> {}]
    /\ pc = [p \in Requests |-> "none"]
    /\ idx = [p \in Requests |-> 0]
    /\ pending = [p \in Requests |-> {}]
    /\ emitted = [p \in Requests |-> {}]
    /\ upSent = [p \in Requests |-> << >>]
    /\ qlog = [p \in Requests |-> << >>]
    /\ cycles = 0

\* ------------------------------------------------------------------- main
\* main: InitNVML() fails (log.Fatalf) or succeeds
InitNVML ==
    /\ mainpc = "init_nvml"
    /\ \E ok \in BOOLEAN :
         /\ mainpc' = IF ok THEN "new_exporter" ELSE "fatal"
         /\ initErr' = IF ok THEN "none" ELSE "InitNVML"
    /\ UNCHANGED <<registered, exporterVars, requestVars, cycles>>

\* main that logs the error of NewExporter without terminating
NewExporterIgnoresError ==
    /\ mainpc = "new_exporter"
    /\ \/ /\ mainpc' = "register"
          /\ initErr' = "GetDevices"
          /\ UNCHANGED <<devices, gauges>>
       \/ \E ds \in DeviceLists :
            /\ devices' = ds
            /\ gauges' = [n \in GaugeNames |-> {}]
            /\ mainpc' = "register"
            /\ UNCHANGED initErr
    /\ UNCHANGED <<registered, mutex, up, requestVars, cycles>>

\* main: NewExporter(); GetDevices fails (log.Fatalf) or yields the device
\* list, after which one empty GaugeVec is built per catalog entry
NewExporter ==
    /\ mainpc = "new_exporter"
    /\ \/ /\ mainpc' = "fatal"
          /\ initErr' = "GetDevices"
          /\ UNCHANGED <<devices, gauges>>
       \/ \E ds \in DeviceLists :
            /\ devices' = ds
            /\ gauges' = [n \in GaugeNames |-> {}]
            /\ mainpc' = "register"
            /\ UNCHANGED initErr
    /\ UNCHANGED <<registered, mutex, up, requestVars, cycles>>

\* main: prometheus.MustRegister(exporter)
MustRegister ==
    /\ mainpc = "register"
    /\ registered' = TRUE
    /\ mainpc' = "serving"
    /\ UNCHANGED <<initErr, exporterVars, requestVars, cycles>>

\* ---------------------------------------------------------------- Collect
\* the scrape server hands a request to Collect; requests are numbered in
\* the order they arrive
Scrape(p) ==
    /\ mainpc = "serving"
    /\ pc[p] = "none"
    /\ IF p = 1 THEN TRUE ELSE pc[p - 1] # "none"
    /\ pc' = [pc EXCEPT ![p] = "lock"]
    /\ UNCHANGED <<mainpc, initErr, registered, cycles, exporterVars, idx, pending, emitted, upSent, qlog>>

\* Lock without mutual exclusion: acquires although another request holds it
LockNoGuard(p) ==
    /\ pc[p] = "lock"
    /\ mutex' = p
    /\ pc' = [pc EXCEPT ![p] = "reset"]
    /\ pending' = [pending EXCEPT ![p] = GaugeNames]
    /\ cycles' = cycles + 1
    /\ UNCHANGED <<mainpc, initErr, registered, devices, up, gauges, idx, emitted, upSent, qlog>>

\* Lock that coalesces: a request that finds a finished cycle returns
\* without running one of its own
LockCoalesce(p) ==
    /\ pc[p] = "lock"
    /\ mutex = 0
    /\ IF \E q \in Requests : pc[q] = "done"
         THEN /\ pc' = [pc EXCEPT ![p] = "done"]
              /\ UNCHANGED <<mutex, pending, cycles>>
         ELSE /\ mutex' = p
              /\ pc' = [pc EXCEPT ![p] = "reset"]
              /\ pending' = [pending EXCEPT ![p] = GaugeNames]
              /\ cycles' = cycles + 1
    /\ UNCHANGED <<mainpc, initErr, registered, devices, up, gauges, idx, emitted, upSent, qlog>>

\* Lock with a timeout: a request that finds the mutex held gives up and
\* returns
LockTimeout(p) ==
    /\ pc[p] = "lock"
    /\ IF mutex = 0
         THEN /\ mutex' = p
              /\ pc' = [pc EXCEPT ![p] = "reset"]
              /\ pending' = [pending EXCEPT ![p] = GaugeNames]
              /\ cycles' = cycles + 1
         ELSE /\ pc' = [pc EXCEPT ![p] = "done"]
              /\ UNCHANGED <<mutex, pending, cycles>>
    /\ UNCHANGED <<mainpc, initErr, registered, devices, up, gauges, idx, emitted, upSent, qlog>>

\* e.mutex.Lock()
Lock(p) ==
    /\ pc[p] = "lock"
    /\ mutex = 0
    /\ mutex' = p
    /\ pc' = [pc EXCEPT ![p] = "reset"]
    /\ pending' = [pending EXCEPT ![p] = GaugeNames]
    /\ cycles' = cycles + 1
    /\ UNCHANGED <<mainpc, initErr, registered, devices, up, gauges, idx, emitted, upSent, qlog>>

\* a reset that drops the vector from the map instead of emptying it
VecResetDeletes(g, name) == [n \in DOMAIN g \ {name} |-> g[n]]

\* vec.Reset() on the vector `name` of the map g: the vector stays in the
\* map and loses every child
VecReset(g, name) == [g EXCEPT ![name] = {}]

\* the reset loop without the call of vec.Reset()
ResetVecKeeps(p) ==
    /\ pc[p] = "reset"
    /\ \E name \in pending[p] :
         /\ pending' = [pending EXCEPT ![p] = @ \ {name}]
         /\ pc' = [pc EXCEPT ![p] = IF pending[p] = {name} THEN "set_up" ELSE "reset"]
    /\ UNCHANGED <<mainpc, initErr, registered, cycles, devices, mutex, up, gauges, idx, emitted, upSent, qlog>>

\* one iteration of `for _, vec := range e.gauges { vec.Reset() }`
ResetVec(p) ==
    /\ pc[p] = "reset"
    /\ \E name \in pending[p] :
         /\ gauges' = VecReset(gauges, name)
         /\ pending' = [pending EXCEPT ![p] = @ \ {name}]
         /\ pc' = [pc EXCEPT ![p] = IF pending[p] = {name} THEN "set_up" ELSE "reset"]
    /\ UNCHANGED <<mainpc, initErr, registered, cycles, devices, mutex, up, idx, emitted, upSent, qlog>>

\* position after the device loop ended or GetTelemetryFromNVML returned:
\* the loop of line 170
AfterTelemetry(p) ==
    /\ pc' = [pc EXCEPT ![p] = "collect"]
    /\ pending' = [pending EXCEPT ![p] = GaugeNames]

\* Collect without e.up.Set(1)
SetUpMissing(p) ==
    /\ pc[p] = "set_up"
    /\ idx' = [idx EXCEPT ![p] = 1]
    /\ IF Len(devices) = 0
         THEN AfterTelemetry(p)
         ELSE pc' = [pc EXCEPT ![p] = "utilization"] /\ UNCHANGED pending
    /\ UNCHANGED <<mainpc, initErr, registered, cycles, devices, mutex, up, gauges, emitted, upSent, qlog>>

\* Collect that reports a cycle over no devices as failed
SetUpEmptyFails(p) ==
    /\ pc[p] = "set_up"
    /\ up' = IF Len(devices) = 0 THEN 0 ELSE 1
    /\ idx' = [idx EXCEPT ![p] = 1]
    /\ IF Len(devices) = 0
         THEN AfterTelemetry(p)
         ELSE pc' = [pc EXCEPT ![p] = "utilization"] /\ UNCHANGED pending
    /\ UNCHANGED <<mainpc, initErr, registered, cycles, devices, mutex, gauges, emitted, upSent, qlog>>

\* defer func() { ch <- e.up }(); e.up.Set(1); entry of GetTelemetryFromNVML
SetUp(p) ==
    /\ pc[p] = "set_up"
    /\ up' = 1
    /\ idx' = [idx EXCEPT ![p] = 1]
    /\ IF Len(devices) = 0
         THEN AfterTelemetry(p)
         ELSE pc' = [pc EXCEPT ![p] = "utilization"] /\ UNCHANGED pending
    /\ UNCHANGED <<mainpc, initErr, registered, cycles, devices, mutex, gauges, emitted, upSent, qlog>>

\* ------------------------------------------------- GetTelemetryFromNVML
\* e.gauges[name].WithLabelValues(Itoa(device.i), UUID, name).Set(float64(v)):
\* creates the child for the label values or overwrites its value; `cycle`
\* records the request whose cycle made the write
SetGauge(g, name, device, v, p) ==
    [g EXCEPT ![name] =
        { e \in @ : e.labels # LabelValues(device) }
        \cup { [labels |-> LabelValues(device), value |-> Float64(v), cycle |-> p] }]

\* a query of `class` on the device at the loop position, with its outcome
Queried(p, class, ok, r) ==
    qlog' = [qlog EXCEPT ![p] =
               Append(@, [dev |-> idx[p], class |-> class, ok |-> ok, reading |-> r])]

\* error branch that returns from Collect past the deferred send of e.up
QueryFailedNoSend(p, class) ==
    /\ Queried(p, class, FALSE, << >>)
    /\ up' = 0
    /\ pc' = [pc EXCEPT ![p] = "unlock"]
    /\ UNCHANGED <<gauges, idx, pending>>

\* error branch without e.up.Set(0)
QueryFailedKeepsUp(p, class) ==
    /\ Queried(p, class, FALSE, << >>)
    /\ AfterTelemetry(p)
    /\ UNCHANGED <<up, gauges, idx>>

\* error branch that skips the loop of vec.Collect
QueryFailedSkipsExport(p, class) ==
    /\ Queried(p, class, FALSE, << >>)
    /\ up' = 0
    /\ pc' = [pc EXCEPT ![p] = "send_up"]
    /\ UNCHANGED <<gauges, idx, pending>>

\* err != nil branch of any query: e.up.Set(0); return
QueryFailed(p, class) ==
    /\ Queried(p, class, FALSE, << >>)
    /\ up' = 0
    /\ AfterTelemetry(p)
    /\ UNCHANGED <<gauges, idx>>

\* GetUtilization whose error branch lacks the return
GetUtilizationNoReturn(p) ==
    /\ pc[p] = "utilization"
    /\ \/ /\ Queried(p, "utilization", FALSE, << >>)
          /\ up' = 0
          /\ pc' = [pc EXCEPT ![p] = "temperature"]
          /\ UNCHANGED <<gauges, idx, pending>>
       \/ \E r \in UtilizationReadings :
            /\ Queried(p, "utilization", TRUE, r)
            /\ gauges' = SetGauge(SetGauge(gauges,
                              "gpu_percent", devices[idx[p]], r.gpuPercent, p),
                              "memory_percent", devices[idx[p]], r.memoryPercent, p)
            /\ pc' = [pc EXCEPT ![p] = "temperature"]
            /\ UNCHANGED <<up, idx, pending>>
    /\ UNCHANGED <<mainpc, initErr, registered, cycles, devices, mutex, emitted, upSent>>

\* GetUtilization followed by the power query: the temperature query is
\* left out of the sequence
GetUtilizationThenPower(p) ==
    /\ pc[p] = "utilization"
    /\ \/ QueryFailed(p, "utilization")
       \/ \E r \in UtilizationReadings :
            /\ Queried(p, "utilization", TRUE, r)
            /\ gauges' = SetGauge(SetGauge(gauges,
                              "gpu_percent", devices[idx[p]], r.gpuPercent, p),
                              "memory_percent", devices[idx[p]], r.memoryPercent, p)
            /\ pc' = [pc EXCEPT ![p] = "power"]
            /\ UNCHANGED <<up, idx, pending>>
    /\ UNCHANGED <<mainpc, initErr, registered, cycles, devices, mutex, emitted, upSent>>

\* device.GetUtilization() and the two Set calls that follow it
GetUtilization(p) ==
    /\ pc[p] = "utilization"
    /\ \/ QueryFailed(p, "utilization")
       \/ \E r \in UtilizationReadings :
            /\ Queried(p, "utilization", TRUE, r)
            /\ gauges' = SetGauge(SetGauge(gauges,
                              "gpu_percent", devices[idx[p]], r.gpuPercent, p),
                              "memory_percent", devices[idx[p]], r.memoryPercent, p)
            /\ pc' = [pc EXCEPT ![p] = "temperature"]
            /\ UNCHANGED <<up, idx, pending>>
    /\ UNCHANGED <<mainpc, initErr, registered, cycles, devices, mutex, emitted, upSent>>

\* GetTemperature whose error branch lacks the return
GetTemperatureNoReturn(p) ==
    /\ pc[p] = "temperature"
    /\ \/ /\ Queried(p, "temperature", FALSE, << >>)
          /\ up' = 0
          /\ pc' = [pc EXCEPT ![p] = "power"]
          /\ UNCHANGED <<gauges, idx, pending>>
       \/ \E r \in TemperatureReadings :
            /\ Queried(p, "temperature", TRUE, r)
            /\ gauges' = SetGauge(SetGauge(gauges,
                              "temperature_celsius", devices[idx[p]], r.tempC, p),
                              "temperature_fahrenheit", devices[idx[p]], r.tempF, p)
            /\ pc' = [pc EXCEPT ![p] = "power"]
            /\ UNCHANGED <<up, idx, pending>>
    /\ UNCHANGED <<mainpc, initErr, registered, cycles, devices, mutex, emitted, upSent>>

\* device.GetTemperature() and the two Set calls that follow it
GetTemperature(p) ==
    /\ pc[p] = "temperature"
    /\ \/ QueryFailed(p, "temperature")
       \/ \E r \in TemperatureReadings :
            /\ Queried(p, "temperature", TRUE, r)
            /\ gauges' = SetGauge(SetGauge(gauges,
                              "temperature_celsius", devices[idx[p]], r.tempC, p),
                              "temperature_fahrenheit", devices[idx[p]], r.tempF, p)
            /\ pc' = [pc EXCEPT ![p] = "power"]
            /\ UNCHANGED <<up, idx, pending>>
    /\ UNCHANGED <<mainpc, initErr, registered, cycles, devices, mutex, emitted, upSent>>

\* GetPowerUsage that isolates the failure: after the error it goes on with
\* the memory query of the device
GetPowerUsageContinues(p) ==
    /\ pc[p] = "power"
    /\ \/ /\ Queried(p, "power", FALSE, << >>)
          /\ up' = 0
          /\ pc' = [pc EXCEPT ![p] = "memory"]
          /\ UNCHANGED <<gauges, idx, pending>>
       \/ \E r \in PowerReadings :
            /\ Queried(p, "power", TRUE, r)
            /\ gauges' = SetGauge(gauges, "power_watts", devices[idx[p]], r.powerUsage, p)
            /\ pc' = [pc EXCEPT ![p] = "memory"]
            /\ UNCHANGED <<up, idx, pending>>
    /\ UNCHANGED <<mainpc, initErr, registered, cycles, devices, mutex, emitted, upSent>>

\* device.GetPowerUsage() and the Set call that follows it
GetPowerUsage(p) ==
    /\ pc[p] = "power"
    /\ \/ QueryFailed(p, "power")
       \/ \E r \in PowerReadings :
            /\ Queried(p, "power", TRUE, r)
            /\ gauges' = SetGauge(gauges, "power_watts", devices[idx[p]], r.powerUsage, p)
            /\ pc' = [pc EXCEPT ![p] = "memory"]
            /\ UNCHANGED <<up, idx, pending>>
    /\ UNCHANGED <<mainpc, initErr, registered, cycles, devices, mutex, emitted, upSent>>

\* device.GetMemoryInfo(), the three Set calls that follow it, and the step
\* of the device loop to the next device or out of the loop
GetMemoryInfo(p) ==
    /\ pc[p] = "memory"
    /\ \/ QueryFailed(p, "memory")
       \/ \E r \in MemoryReadings :
            /\ Queried(p, "memory", TRUE, r)
            /\ gauges' = SetGauge(SetGauge(SetGauge(gauges,
                              "memory_free", devices[idx[p]], r.Free, p),
                              "memory_total", devices[idx[p]], r.Total, p),
                              "memory_used", devices[idx[p]], r.Used, p)
            /\ idx' = [idx EXCEPT ![p] = @ + 1]
            /\ IF idx[p] = Len(devices)
                 THEN AfterTelemetry(p)
                 ELSE pc' = [pc EXCEPT ![p] = "utilization"] /\ UNCHANGED pending
            /\ UNCHANGED up
    /\ UNCHANGED <<mainpc, initErr, registered, cycles, devices, mutex, emitted, upSent>>

\* ------------------------------------------------------ Collect, continued
\* what vec.Collect(ch) sends for the vector `name`: every child it holds
Series(name) ==
    { [name |-> name, labels |-> e.labels, value |-> e.value, cycle |-> e.cycle] :
        e \in gauges[name] }

\* one iteration of `for _, vec := range e.gauges { vec.Collect(ch) }`
CollectVec(p) ==
    /\ pc[p] = "collect"
    /\ \E name \in pending[p] :
         /\ emitted' = [emitted EXCEPT ![p] = @ \cup Series(name)]
         /\ pending' = [pending EXCEPT ![p] = @ \ {name}]
         /\ pc' = [pc EXCEPT ![p] = IF pending[p] = {name} THEN "send_up" ELSE "collect"]
    /\ UNCHANGED <<mainpc, initErr, registered, cycles, exporterVars, idx, upSent, qlog>>

\* the deferred func() { ch <- e.up }()
\* the two defers registered in the other order: the mutex is released first
\* and e.up is sent after it
SendUpUnlocked(p) ==
    /\ pc[p] = "send_up"
    /\ upSent' = [upSent EXCEPT ![p] = Append(@, up)]
    /\ mutex' = 0
    /\ pc' = [pc EXCEPT ![p] = "unlock"]
    /\ UNCHANGED <<mainpc, initErr, registered, cycles, devices, up, gauges, idx, pending, emitted, qlog>>

SendUp(p) ==
    /\ pc[p] = "send_up"
    /\ upSent' = [upSent EXCEPT ![p] = Append(@, up)]
    /\ pc' = [pc EXCEPT ![p] = "unlock"]
    /\ UNCHANGED <<mainpc, initErr, registered, cycles, exporterVars, idx, pending, emitted, qlog>>

\* an Unlock that is not deferred: the return of an aborted cycle passes it
\* by and the mutex stays held
UnlockOnSuccessOnly(p) ==
    /\ pc[p] = "unlock"
    /\ mutex' = IF up = 0 THEN mutex ELSE 0
    /\ pc' = [pc EXCEPT ![p] = "done"]
    /\ idx' = [idx EXCEPT ![p] = 0]
    /\ emitted' = [emitted EXCEPT ![p] = {}]
    /\ qlog' = [qlog EXCEPT ![p] = << >>]
    /\ UNCHANGED <<mainpc, initErr, registered, cycles, devices, up, gauges, pending, upSent>>

\* the deferred e.mutex.Unlock(); Collect returns
Unlock(p) ==
    /\ pc[p] = "unlock"
    /\ mutex' = 0
    /\ pc' = [pc EXCEPT ![p] = "done"]
    /\ idx' = [idx EXCEPT ![p] = 0]
    /\ emitted' = [emitted EXCEPT ![p] = {}]
    /\ qlog' = [qlog EXCEPT ![p] = << >>]
    /\ UNCHANGED <<mainpc, initErr, registered, cycles, devices, up, gauges, pending, upSent>>

\* ---------------------------------------------------------- specification
Next ==
    \/ InitNVML
    \/ NewExporter
    \/ MustRegister
    \/ \E p \in Requests : Scrape(p)
    \/ \E p \in Requests : Lock(p)
    \/ \E p \in Requests : ResetVec(p)
    \/ \E p \in Requests : SetUp(p)
    \/ \E p \in Requests : GetUtilization(p)
    \/ \E p \in Requests : GetTemperature(p)
    \/ \E p \in Requests : GetPowerUsage(p)
    \/ \E p \in Requests : GetMemoryInfo(p)
    \/ \E p \in Requests : CollectVec(p)
    \/ \E p \in Requests : SendUp(p)
    \/ \E p \in Requests : Unlock(p)

Spec == Init /\ [][Next]_vars

\* the steps of request p between the acquisition of the lock and the
\* return of Collect
Runs(p) ==
    \/ ResetVec(p) \/ SetUp(p)
    \/ GetUtilization(p) \/ GetTemperature(p) \/ GetPowerUsage(p) \/ GetMemoryInfo(p)
    \/ CollectVec(p) \/ SendUp(p) \/ Unlock(p)

\* the behaviours in which every device query returns, the consumer of ch
\* takes what is sent and the goroutine inside the cycle keeps being
\* scheduled, and in which a mutex that stays free is taken by a request
\* waiting in mutex.Lock()
LiveSpec ==
    /\ Spec
    /\ WF_vars(\E p \in Requests : Runs(p))
    /\ WF_vars(\E p \in Requests : Lock(p))

TypeOK ==
    /\ mainpc \in {"init_nvml", "new_exporter", "register", "serving", "fatal"}
    /\ registered \in BOOLEAN
    /\ mutex \in 0..MaxRequests
    /\ up \in {0, 1}
    /\ \A p \in Requests :
         /\ pc[p] \in {"none", "lock", "reset", "set_up", "utilization", "temperature",
                       "power", "memory", "collect", "send_up", "unlock", "done"}
         /\ pending[p] \subseteq GaugeNames

\* ------------------------------------------------- vocabulary of the properties
\* the decimal strings of the indexes in DevicePool, written out
DecimalOf(n) ==
    CASE n = 0 -> "0" [] n = 1 -> "1" [] n = 3 -> "3" [] n = 12 -> "12"

\* the label triple a series of the d-th enumerated device must carry
ExpectedLabels(d) ==
    <<DecimalOf(devices[d].i), devices[d].DeviceUUID, devices[d].DeviceName>>

\* the query class a catalog metric is fed by, and the part of the query's
\* result it shows
ClassOf(name) == CHOOSE c \in {"utilization", "temperature", "power", "memory"} :
                    name \in WrittenBy(c)

Field(name, r) ==
    CASE name = "gpu_percent"            -> r.gpuPercent
      [] name = "memory_percent"         -> r.memoryPercent
      [] name = "temperature_fahrenheit" -> r.tempF
      [] name = "temperature_celsius"    -> r.tempC
      [] name = "power_watts"            -> r.powerUsage
      [] name = "memory_free"            -> r.Free
      [] name = "memory_total"           -> r.Total
      [] name = "memory_used"            -> r.Used

DeviceIdx == 1..Len(devices)

\* request p is at the end of its cycle: everything sent, lock still held
AtEnd(p) == pc[p] = "unlock"

\* every query request p issued so far succeeded
AllSucceeded(p) == \A k \in DOMAIN qlog[p] : qlog[p][k].ok

\* the first failing query of request p's cycle is `class` on device k
FirstFailure(p, k, class) ==
    \E j \in DOMAIN qlog[p] :
        /\ ~qlog[p][j].ok /\ qlog[p][j].dev = k /\ qlog[p][j].class = class
        /\ \A h \in 1..(j - 1) : qlog[p][h].ok

\* request p's query of `class` on device d succeeded, and what it returned
OkQuery(p, d, class) ==
    \E k \in DOMAIN qlog[p] :
        qlog[p][k].dev = d /\ qlog[p][k].class = class /\ qlog[p][k].ok

Returned(p, d, class) ==
    qlog[p][CHOOSE k \in DOMAIN qlog[p] :
              qlog[p][k].dev = d /\ qlog[p][k].class = class /\ qlog[p][k].ok].reading

\* metric `name` has an entry for device d / one written by request p's cycle
HasEntry(name, d) == \E e \in gauges[name] : e.labels = ExpectedLabels(d)

HasEntryFrom(name, d, p) ==
    \E e \in gauges[name] : e.labels = ExpectedLabels(d) /\ e.cycle = p

\* C1: a cycle in which every device query succeeded ends with up = 1 and
\* every one of the eight metrics holding exactly one entry per enumerated
\* device, labelled (decimal index, UUID, name) and carrying the value that
\* device's query returned for the metric
C1_AllSucceed ==
    \A p \in Requests :
        (AtEnd(p) /\ AllSucceeded(p)) =>
            /\ up = 1
            /\ \A name \in GaugeNames :
                 /\ Cardinality(gauges[name]) = Len(devices)
                 /\ \A d \in DeviceIdx :
                      /\ OkQuery(p, d, ClassOf(name))
                      /\ \E e \in gauges[name] :
                           /\ e.labels = ExpectedLabels(d)
                           /\ e.value = Field(name, Returned(p, d, ClassOf(name)))

\* a fully successful cycle over two devices enumerated against index order
C1_Witness ==
    \E p \in Requests :
        /\ AtEnd(p) /\ AllSucceeded(p)
        /\ Len(devices) = 2 /\ devices[1].i = 12 /\ devices[2].i = 0

\* C2: when the utilization query of device k is the first query to fail,
\* the cycle ends with up = 0, devices before k have an entry of this cycle
\* in all eight metrics, and devices k.. have no entry in any metric
C2_UtilizationFails ==
    \A p \in Requests : \A k \in DeviceIdx :
        (AtEnd(p) /\ FirstFailure(p, k, "utilization")) =>
            /\ up = 0
            /\ \A name \in GaugeNames :
                 /\ \A d \in 1..(k - 1) : HasEntryFrom(name, d, p)
                 /\ \A d \in k..Len(devices) : ~HasEntry(name, d)

C2_Witness ==
    \E p \in Requests :
        AtEnd(p) /\ Len(devices) = 2 /\ FirstFailure(p, 2, "utilization")

\* C3 as stated: when the temperature query of device k is the first query
\* to fail, the cycle ends with up = 0, complete data for the devices before
\* k, and no series at all for device k and the devices after it
C3_Original ==
    \A p \in Requests : \A k \in DeviceIdx :
        (AtEnd(p) /\ FirstFailure(p, k, "temperature")) =>
            /\ up = 0
            /\ \A name \in GaugeNames :
                 /\ \A d \in 1..(k - 1) : HasEntryFrom(name, d, p)
                 /\ \A d \in k..Len(devices) : ~HasEntry(name, d)

\* C3, amended: when the temperature query of device k is the first query to
\* fail, the cycle ends with up = 0, complete data for the devices before k,
\* no series for the devices after k, and for device k exactly the two
\* utilization series (gpu_percent, memory_percent), carrying what its
\* utilization query returned
C3_TemperatureFails ==
    \A p \in Requests : \A k \in DeviceIdx :
        (AtEnd(p) /\ FirstFailure(p, k, "temperature")) =>
            /\ up = 0
            /\ \A name \in GaugeNames :
                 /\ \A d \in 1..(k - 1) : HasEntryFrom(name, d, p)
                 /\ \A d \in (k + 1)..Len(devices) : ~HasEntry(name, d)
                 /\ HasEntry(name, k) <=> name \in {"gpu_percent", "memory_percent"}
                 /\ name \in {"gpu_percent", "memory_percent"} =>
                      \E e \in gauges[name] :
                          /\ e.labels = ExpectedLabels(k) /\ e.cycle = p
                          /\ e.value = Field(name, Returned(p, k, "utilization"))

C3_Witness ==
    \E p \in Requests :
        AtEnd(p) /\ Len(devices) = 2 /\ FirstFailure(p, 2, "temperature")

\* request p is between e.mutex.Lock() and the deferred e.mutex.Unlock()
InCycle(p) ==
    pc[p] \in {"reset", "set_up", "utilization", "temperature", "power",
               "memory", "collect", "send_up", "unlock"}

\* request p is exporting: in the loop of vec.Collect or past it
Exporting(p) == pc[p] \in {"collect", "send_up", "unlock"}

\* the series request p's cycle must export, from the queries that succeeded
ExpectedSeries(p) ==
    { [name |-> x[1], labels |-> ExpectedLabels(x[2]),
       value |-> Field(x[1], Returned(p, x[2], ClassOf(x[1]))), cycle |-> p] :
        x \in { y \in GaugeNames \X DeviceIdx : OkQuery(p, y[2], ClassOf(y[1])) } }

\* C4: at most one cycle is between lock and unlock; a cycle sends series
\* only while it holds the lock, after its reset and its queries are over,
\* and every series it sends was written by that same cycle
C4_MutualExclusion ==
    /\ \A p, q \in Requests : (InCycle(p) /\ InCycle(q)) => p = q
    /\ \A p \in Requests : InCycle(p) => mutex = p
    /\ \A p \in Requests :
         /\ emitted[p] # {} => Exporting(p)
         /\ \A x \in emitted[p] : x.cycle = p

\* a second request waits at the lock while the first cycle, which follows
\* no other, has sent series of its own
C4_Witness ==
    /\ pc[1] = "collect" /\ emitted[1] # {} /\ pending[1] # {}
    /\ pc[2] = "lock"

\* C5: every cycle sends the health gauge exactly once, completed or aborted:
\* nothing before the deferred send, one value from it on
C5_UpSentOnce ==
    \A p \in Requests :
        Len(upSent[p]) = IF pc[p] \in {"unlock", "done"} THEN 1 ELSE 0

\* an aborted and a completed cycle have both returned, with devices present
C5_Witness ==
    /\ Len(devices) > 0
    /\ \E p, q \in Requests :
         /\ pc[p] = "done" /\ upSent[p] = <<0>>
         /\ pc[q] = "done" /\ upSent[q] = <<1>>

\* a query of request p failed in this step
FailsNow(p) ==
    /\ Len(qlog'[p]) = Len(qlog[p]) + 1
    /\ ~qlog'[p][Len(qlog'[p])].ok

\* C6: in a cycle the health gauge is 1 once the reset is over and before the
\* first query, stays 1 while queries succeed, becomes 0 in the step in which
\* a query fails, and goes from 0 to 1 only by the e.up.Set(1) of a cycle
\* that has just finished its reset
C6_HealthWithinCycle ==
    /\ [](\A p \in Requests :
            /\ pc[p] \in {"utilization", "temperature", "power", "memory"} =>
                 (up = 1 /\ AllSucceeded(p))
            /\ (pc[p] = "utilization" /\ qlog[p] = << >>) =>
                 \A name \in GaugeNames : gauges[name] = {}
            /\ Exporting(p) => (up = IF AllSucceeded(p) THEN 1 ELSE 0))
    /\ [][ /\ \A p \in Requests : FailsNow(p) => (up = 1 /\ up' = 0)
           /\ (up = 1 /\ up' = 0) => \E p \in Requests : FailsNow(p)
           /\ (up = 0 /\ up' = 1) =>
                \E p \in Requests :
                    /\ pc[p] = "set_up" /\ pc'[p] # "set_up"
                    /\ qlog[p] = << >> /\ emitted[p] = {}
                    /\ \A name \in GaugeNames : gauges[name] = {} ]_vars

\* a cycle that followed an aborted one failed a query of its second device
C6_Witness ==
    \E p, q \in Requests :
        /\ pc[q] = "done" /\ upSent[q] = <<0>>
        /\ pc[p] = "collect" /\ up = 0 /\ FirstFailure(p, 2, "memory")

\* C7: a cycle that aborted on a failed query exports exactly the entries
\* written by the queries that succeeded before the abort, and up = 0
C7_AbortedCycleExports ==
    \A p \in Requests :
        (AtEnd(p) /\ ~AllSucceeded(p)) =>
            /\ emitted[p] = ExpectedSeries(p)
            /\ upSent[p] = <<0>>

\* a cycle aborted on the power query of its second device: 8 + 4 series
C7_Witness ==
    \E p \in Requests :
        /\ AtEnd(p) /\ FirstFailure(p, 2, "power")
        /\ Cardinality(emitted[p]) = 12

\* C8: the process keeps serving after failed queries, and at the end of any
\* cycle, whatever the cycles before it, health and registry are those of
\* this cycle's query outcomes: up = 1 and one entry per device and metric
\* when all succeeded
C8_Recovery ==
    /\ (\E p \in Requests : pc[p] # "none") => mainpc = "serving"
    /\ \A p \in Requests :
         AtEnd(p) =>
            /\ up = IF AllSucceeded(p) THEN 1 ELSE 0
            /\ \A name \in GaugeNames :
                 /\ gauges[name] = { [labels |-> x.labels, value |-> x.value, cycle |-> p] :
                                       x \in { y \in ExpectedSeries(p) : y.name = name } }
                 /\ AllSucceeded(p) =>
                      /\ Cardinality(gauges[name]) = Len(devices)
                      /\ \A d \in DeviceIdx : HasEntryFrom(name, d, p)

\* a fully successful cycle over two devices right after an aborted one
C8_Witness ==
    /\ pc[1] = "done" /\ upSent[1] = <<0>>
    /\ AtEnd(2) /\ AllSucceeded(2) /\ up = 1
    /\ Len(devices) = 2

\* C9: while a cycle exports, every entry of the registry was written by
\* that cycle, by a query of it that succeeded; entries of earlier cycles
\* are gone
C9_NoStaleEntries ==
    \A p \in Requests :
        Exporting(p) =>
            \A name \in GaugeNames :
                /\ \A e \in gauges[name] : e.cycle = p
                /\ \A d \in DeviceIdx :
                     HasEntry(name, d) => OkQuery(p, d, ClassOf(name))

\* the first cycle wrote every entry; the second aborts on its first query
\* and exports an empty registry
C9_Witness ==
    /\ pc[1] = "done" /\ upSent[1] = <<1>> /\ Len(devices) = 2
    /\ Exporting(2) /\ FirstFailure(2, 1, "utilization")
    /\ \A name \in GaugeNames : gauges[name] = {}

\* the order in which Collect moves through its code
Flow ==
    { <<"none", "lock">>, <<"lock", "reset">>, <<"reset", "set_up">>,
      <<"set_up", "utilization">>, <<"set_up", "collect">>,
      <<"utilization", "temperature">>, <<"utilization", "collect">>,
      <<"temperature", "power">>, <<"temperature", "collect">>,
      <<"power", "memory">>, <<"power", "collect">>,
      <<"memory", "utilization">>, <<"memory", "collect">>,
      <<"collect", "send_up">>, <<"send_up", "unlock">>, <<"unlock", "done">> }

\* C10: a request leaves the lock only when the mutex is free and then runs
\* its own cycle from the reset on, step by step to the unlock; a step of
\* another request changes nothing of a cycle in flight; the number of cycles
\* begun is the number of requests that got past the lock, so each request
\* that returned ran one cycle
C10_Serialize ==
    /\ [](/\ cycles = Cardinality({ p \in Requests : InCycle(p) \/ pc[p] = "done" })
          /\ \A p \in Requests : pc[p] = "done" => Len(upSent[p]) = 1)
    /\ [][\A p \in Requests :
            /\ (pc[p] = "lock" /\ pc'[p] # "lock") =>
                 (mutex = 0 /\ mutex' = p /\ pc'[p] = "reset" /\ pending'[p] = GaugeNames)
            /\ pc'[p] # pc[p] => <<pc[p], pc'[p]>> \in Flow
            /\ (InCycle(p) /\ pc'[p] = pc[p] /\ pending'[p] = pending[p]) =>
                 /\ mutex' = p
                 /\ UNCHANGED <<up, gauges>>
                 /\ idx'[p] = idx[p] /\ emitted'[p] = emitted[p]
                 /\ qlog'[p] = qlog[p] /\ upSent'[p] = upSent[p] ]_vars

\* the second request arrived during the first cycle, waited, and is now at
\* the end of a cycle of its own
C10_Witness ==
    /\ pc[1] = "done" /\ pc[2] = "unlock" /\ cycles = 2
    /\ Len(devices) = 2 /\ Len(qlog[2]) = 8

\* C11: with no devices enumerated a cycle issues no device query, and it
\* ends with up = 1, sent as 1, and all eight vectors empty, none of them
\* sending a series
C11_EmptyDeviceList ==
    \A p \in Requests :
        Len(devices) = 0 =>
            /\ qlog[p] = << >>
            /\ pc[p] \notin {"utilization", "temperature", "power", "memory"}
            /\ emitted[p] = {}
            /\ AtEnd(p) =>
                 /\ up = 1 /\ upSent[p] = <<1>>
                 /\ DOMAIN gauges = GaugeNames
                 /\ \A name \in GaugeNames : gauges[name] = {}

\* the first cycle of an exporter without devices is at its end
C11_Witness ==
    /\ mainpc = "serving" /\ Len(devices) = 0
    /\ AtEnd(1) /\ cycles = 1

\* request p has issued a device query that has not returned
AtQuery(p) == pc[p] \in {"utilization", "temperature", "power", "memory"}

\* C12: while a device query of a cycle has not returned, the cycle holds
\* the lock, and as long as it does not return the lock stays held and every
\* other request stays where it is: one that has not completed does not
\* complete, sends nothing and starts no cycle; only the holder's own
\* deferred Unlock ever frees the mutex
C12_HangBlocksScrapes ==
    /\ [](\A p \in Requests :
            AtQuery(p) =>
                /\ mutex = p
                /\ \A q \in Requests \ {p} :
                     /\ pc[q] \in {"none", "lock", "done"}
                     /\ pc[q] # "done" => (emitted[q] = {} /\ upSent[q] = << >>))
    /\ [][\A p \in Requests :
            /\ (AtQuery(p) /\ pc'[p] = pc[p] /\ qlog'[p] = qlog[p]) =>
                 /\ mutex' = p
                 /\ cycles' = cycles
                 /\ UNCHANGED <<up, gauges>>
                 /\ \A q \in Requests \ {p} :
                      /\ pc[q] # "done" => pc'[q] \in {"none", "lock"}
                      /\ emitted'[q] = emitted[q] /\ upSent'[q] = upSent[q]
            /\ (mutex = p /\ mutex' # p) =>
                 (pc[p] = "unlock" /\ pc'[p] = "done" /\ mutex' = 0) ]_vars

\* the first cycle waits for its second device's temperature while a later
\* request waits at the lock
C12_Witness ==
    /\ pc[1] = "temperature" /\ idx[1] = 2 /\ mutex = 1
    /\ pc[2] = "lock"

\* C13: once InitNVML or GetDevices has returned an error the process is
\* terminated: main is at its fatal exit, the collector was never registered,
\* no request reached Collect and no cycle was begun; the fatal exit is
\* reached in no other way
C13_InitFailureIsFatal ==
    /\ initErr # "none" =>
         /\ mainpc = "fatal"
         /\ ~registered
         /\ cycles = 0
         /\ \A p \in Requests : pc[p] = "none" /\ upSent[p] = << >>
    /\ mainpc = "fatal" => initErr \in {"InitNVML", "GetDevices"}
    /\ registered => mainpc = "serving"

\* the runtime started, the device enumeration failed
C13_Witness == mainpc = "fatal" /\ initErr = "GetDevices"

\* the registry has one vector per catalog entry
Shaped(g) == DOMAIN g = GaugeNames

\* C14: the reset leaves every catalog vector in the registry and leaves it
\* without entries, whatever the registry held before: each vec.Reset()
\* empties its vector and touches no other, resetting an emptied vector
\* changes nothing, and when the reset loop is over (also when it ran on a
\* registry the previous reset had already emptied) all eight vectors exist
\* and are empty
C14_ResetIdempotentTotal ==
    /\ mainpc = "serving" => Shaped(gauges)
    /\ Shaped(gauges) =>
         \A name \in GaugeNames :
             /\ Shaped(VecReset(gauges, name))
             /\ VecReset(gauges, name)[name] = {}
             /\ \A other \in GaugeNames \ {name} :
                  VecReset(gauges, name)[other] = gauges[other]
             /\ VecReset(VecReset(gauges, name), name) = VecReset(gauges, name)
    /\ \A p \in Requests :
         /\ pc[p] = "reset" => \A name \in GaugeNames \ pending[p] : gauges[name] = {}
         /\ pc[p] = "set_up" => (Shaped(gauges) /\ \A name \in GaugeNames : gauges[name] = {})

\* the second cycle has finished its reset of the registry that the first
\* cycle filled for two devices
C14_Witness ==
    /\ pc[1] = "done" /\ upSent[1] = <<1>> /\ Len(devices) = 2
    /\ pc[2] = "set_up"

\* C15: fail-fast. A cycle has at most one failed query and it is the last
\* query it issued; from the failure to the end of the cycle the request is
\* exporting, issues no query and no series entry is written
C15_FailFast ==
    /\ [](\A p \in Requests :
            /\ \A k \in DOMAIN qlog[p] : ~qlog[p][k].ok => k = Len(qlog[p])
            /\ ~AllSucceeded(p) => (Exporting(p) /\ mutex = p))
    /\ [][\A p \in Requests :
            (~AllSucceeded(p) /\ pc'[p] # "done") =>
                /\ qlog'[p] = qlog[p]
                /\ gauges' = gauges
                /\ up' = 0 ]_vars

\* the power query of the first of two devices failed, and the export that
\* follows the abort has begun
C15_Witness ==
    \E p \in Requests :
        /\ Len(devices) = 2 /\ FirstFailure(p, 1, "power")
        /\ pc[p] = "collect" /\ pending[p] # GaugeNames
        /\ Len(qlog[p]) = 3

\* C16: the k-th query of a cycle is query class ((k-1) mod 4) + 1 of
\* QueryOrder on device ((k-1) div 4) + 1 of the enumeration; every query
\* but the last one issued succeeded, so a device is queried only after all
\* four queries of the device before it succeeded, and the failure that
\* aborts a cycle is the earliest one; the request's position is the query
\* that follows the log
C16_QueryOrder ==
    \A p \in Requests :
        /\ Len(qlog[p]) <= 4 * Len(devices)
        /\ \A k \in DOMAIN qlog[p] :
             /\ qlog[p][k].dev = ((k - 1) \div 4) + 1
             /\ qlog[p][k].class = QueryOrder[((k - 1) % 4) + 1]
             /\ k < Len(qlog[p]) => qlog[p][k].ok
        /\ AtQuery(p) =>
             /\ AllSucceeded(p)
             /\ idx[p] = (Len(qlog[p]) \div 4) + 1
             /\ pc[p] = QueryOrder[(Len(qlog[p]) % 4) + 1]

\* six queries issued, the last of them, the temperature query of the
\* second device, failed
C16_Witness ==
    \E p \in Requests :
        /\ Len(devices) = 2 /\ pc[p] = "send_up"
        /\ Len(qlog[p]) = 6 /\ FirstFailure(p, 2, "temperature")

\* some request is inside Collect
Busy == \E p \in Requests : pc[p] \notin {"none", "done"}

\* C17: the mutex is held by a request inside its cycle only, never by one
\* that has returned, completed or aborted; while a request is inside
\* Collect some step is possible; and when every query returns and the
\* consumer takes what is sent, there is again and again a time at which no
\* request is inside Collect and the mutex is free: as a request never
\* leaves "done", each request that called Collect has by then acquired the
\* lock, run its cycle and returned
C17_LockReleasedAndLive ==
    /\ [](\A p \in Requests :
            /\ pc[p] = "done" => (mutex # p /\ Len(upSent[p]) = 1)
            /\ mutex = p => InCycle(p))
    /\ [](Busy => ENABLED <<Next>>_vars)
    /\ []<>(~Busy /\ mutex = 0)

\* both requests have returned, the first from an aborted cycle, and the
\* mutex is free
C17_Witness ==
    /\ pc[1] = "done" /\ upSent[1] = <<0>>
    /\ pc[2] = "done" /\ upSent[2] = <<1>>
    /\ mutex = 0 /\ cycles = 2 /\ Len(devices) = 2

\* the value the health gauge must carry at the end of request p's cycle
HealthOf(p) == IF AllSucceeded(p) THEN 1 ELSE 0

\* C18: the health gauge is the last metric a cycle emits: it is sent once
\* every vector has been collected and all the series of the cycle are out,
\* while the request still holds the mutex, no series follows it, and the
\* value sent is the one the queries of that same cycle produced
C18_UpIsLast ==
    /\ [](\A p \in Requests :
            pc[p] = "unlock" =>
                /\ mutex = p
                /\ upSent[p] = <<HealthOf(p)>>
                /\ emitted[p] = ExpectedSeries(p))
    /\ [][\A p \in Requests :
            /\ upSent'[p] # upSent[p] =>
                    /\ pc[p] = "send_up" /\ pending[p] = {}
                    /\ mutex = p /\ mutex' = p
                    /\ emitted[p] = ExpectedSeries(p)
                    /\ emitted'[p] = emitted[p]
                    /\ up = HealthOf(p)
                    /\ upSent'[p] = <<up>>
            /\ emitted'[p] \ emitted[p] # {} =>
                    upSent[p] = << >> /\ upSent'[p] = << >>]_vars

\* an aborted cycle over two devices has sent the series of its first device
\* and then the health gauge at 0, and still holds the mutex
C18_Witness ==
    \E p \in Requests :
        /\ pc[p] = "unlock" /\ mutex = p /\ Len(devices) = 2
        /\ FirstFailure(p, 2, "utilization")
        /\ upSent[p] = <<0>>
        /\ emitted[p] # {} /\ emitted[p] = ExpectedSeries(p)

====
